---------------------------- MODULE Spec2Model ----------------------------
(***************************************************************************)
(* A model of compphoto/IntrinsicHDR, inference.py.                        *)
(*                                                                         *)
(* The file is a batch script (__main__, lines 259-389) around four        *)
(* functions: blend_imgs, load_reconstruction_models, hdr_reconstruction   *)
(* and intrinsic_hdr.  Each unit of code is modelled by its own actions;   *)
(* the specifications below run one unit each on inputs drawn from small   *)
(* sets:                                                                   *)
(*                                                                         *)
(*   Spec       the script from process start (lines 264-298)              *)
(*   LoopSpec   the data selection and the inference loop (lines 305-389)  *)
(*   StoreSpec  the output block of one loop iteration (lines 342-387)     *)
(*   IhdrSpec   intrinsic_hdr (lines 174-255), on array shapes             *)
(*   MaskSpec   the highlight mask of hdr_reconstruction (lines 195-212,   *)
(*              126-127), on pixel values                                  *)
(*   BlendSpec  blend_imgs (lines 22-52), on pixel values                  *)
(*                                                                         *)
(* Pixel values are exact: an integer count of a fixed unit, a quotient a   *)
(* pair of integers.  The processing size of intrinsic_hdr is computed in  *)
(* binary64 arithmetic, as Python computes it.                             *)
(***************************************************************************)
EXTENDS Integers, Sequences, FiniteSets, TLC

VARIABLES
    pc,      \* position of the unit being run
    args,    \* the argparse namespace (line 279)
    env,     \* the files the script finds: inputs, weights, checkpoints
    imgs,    \* the selected file list (lines 305-309)
    idx,     \* number of loop iterations started (line 331)
    reads,   \* the images handed to cv2.imread, in order (line 336)
    calls,   \* the arguments of every call of intrinsic_hdr (line 340)
    fs,      \* the paths handed to cv2.imwrite, in order (lines 352-387)
    out,     \* the lines the script printed
    failed,  \* 0, or the iteration in which an exception was raised
    exc,     \* the exception that ended the unit, or "none"
    img,     \* StoreSpec: the img_name of the iteration
    ih,      \* IhdrSpec: the locals of intrinsic_hdr
    hr,      \* MaskSpec: the pixels and the mask of hdr_reconstruction
    bl       \* BlendSpec: the arguments and the result of blend_imgs

vars == <<pc, args, env, imgs, idx, reads, calls, fs, out, failed, exc, img, ih, hr, bl>>

mainVars == <<pc, args, env, imgs, idx, reads, calls, fs, out, failed, exc>>

\* An optional integer (None or a value) is the empty set or a one-element set.
None == {}

Some(x) == {x}

Val(o) == CHOOSE x \in o : TRUE

(***************************************************************************)
(* Bounds of the model.                                                    *)
(***************************************************************************)
MaxFiles == 2
MaxDim == 34
NPix == 2

(***************************************************************************)
(* Python helpers.                                                         *)
(***************************************************************************)
Max(a, b) == IF a >= b THEN a ELSE b

Min(a, b) == IF a <= b THEN a ELSE b

\* a[start:end] of a Python list: negative indices count from the end, out
\* of range indices are clamped, end None is the length.
PySlice(s, start, end) ==
    LET n  == Len(s)
        lo == IF start < 0 THEN Max(n + start, 0) ELSE Min(start, n)
        hi == IF end = None THEN n
              ELSE IF Val(end) < 0 THEN Max(n + Val(end), 0) ELSE Min(Val(end), n)
    IN  IF lo >= hi THEN <<>> ELSE SubSeq(s, lo + 1, hi)

\* sorted(...) of a set of file ids; the order of the ids is the order of
\* their path strings.
RECURSIVE Sorted(_)
Sorted(S) ==
    IF S = {} THEN <<>>
    ELSE LET m == CHOOSE x \in S : \A y \in S : x <= y
         IN  <<m>> \o Sorted(S \ {m})

Range(s) == {s[i] : i \in 1..Len(s)}

(***************************************************************************)
(* Paths.  A string is a sequence of tokens; no token's text contains the  *)
(* text of a pattern that str.replace is called with, so replacing token   *)
(* sequences is replacing substrings.                                      *)
(***************************************************************************)
\* s.replace(old, new): every non-overlapping occurrence, left to right.
RECURSIVE StrReplace(_, _, _)
StrReplace(s, old, new) ==
    IF Len(s) < Len(old) THEN s
    ELSE IF SubSeq(s, 1, Len(old)) = old
         THEN new \o StrReplace(SubSeq(s, Len(old) + 1, Len(s)), old, new)
         ELSE <<s[1]>> \o StrReplace(Tail(s), old, new)

\* os.path.join(a, b) for a relative b.
PathJoin(a, b) ==
    IF a = <<>> THEN b
    ELSE IF a[Len(a)] = "/" THEN a \o b ELSE a \o <<"/">> \o b

\* The index of the last "/" of s, 0 if there is none.
LastSlash(s) ==
    LET S == {i \in 1..Len(s) : s[i] = "/"}
    IN  IF S = {} THEN 0 ELSE CHOOSE i \in S : \A j \in S : j <= i

\* os.path.split(p): (head, tail); the head loses its trailing slashes
\* unless it is all slashes.
RECURSIVE StripSlashes(_)
StripSlashes(s) ==
    IF s = <<>> \/ s[Len(s)] # "/" THEN s
    ELSE StripSlashes(SubSeq(s, 1, Len(s) - 1))

PathSplit(p) ==
    LET i    == LastSlash(p)
        head == SubSeq(p, 1, i)
        tail == SubSeq(p, i + 1, Len(p))
        h    == StripSlashes(head)
    IN  [head |-> IF h = <<>> THEN head ELSE h, tail |-> tail]

(***************************************************************************)
(* blend_imgs (lines 22-52).  An image is a sequence of pixels, a pixel a  *)
(* triple <<r, g, b>> of integers.  The mask is counted in halves (2 is    *)
(* 1.0).  A quotient n/d is the record [n |-> n, d |-> d] with d > 0.      *)
(***************************************************************************)
Pixels == 1..NPix

Colours == {<<0, 0, 0>>, <<1, 2, 0>>, <<3, 1, 2>>}

MaskVals == {0, 1, 2, 4}

\* rgb_to_lab(...)[:,:,0] of one pixel: the lightness, here the luminance
\* weights of the colour in tenths.
Lightness(p) == 2 * p[1] + 7 * p[2] + p[3]

RECURSIVE SumOver(_, _)
SumOver(S, f) ==
    IF S = {} THEN 0
    ELSE LET x == CHOOSE y \in S : TRUE
         IN  f[x] + SumOver(S \ {x}, f)

\* Lines 40-44: the least-squares fit l_hdr ~ scale * l_ldr over the pixels
\* with mask >= 0.  lstsq gives sum(l_ldr*l_hdr)/sum(l_ldr^2), and 0 (the
\* minimum-norm solution) when l_ldr is all zero.
FitScale(ldr, hdr, mask) ==
    LET sel == {p \in DOMAIN mask : mask[p] >= 0}
        xy  == SumOver(sel, [p \in sel |-> Lightness(ldr[p]) * Lightness(hdr[p])])
        xx  == SumOver(sel, [p \in sel |-> Lightness(ldr[p]) * Lightness(ldr[p])])
    IN  IF xx = 0 THEN [n |-> 0, d |-> 1] ELSE [n |-> xy, d |-> xx]

\* Line 50 with the weights exchanged.
BlendPixelSwapped(l, h, m, scale) ==
    [c \in 1..3 |-> [n |-> (2 - m) * h[c] * scale.d + m * scale.n * l[c],
                     d |-> 2 * scale.d]]

\* Line 50 for one pixel: mask*hdr + (1-mask)*ldr_scaled, ldr_scaled = ldr*scale
\* (line 47).
BlendPixel(l, h, m, scale) ==
    [c \in 1..3 |-> [n |-> m * h[c] * scale.d + (2 - m) * scale.n * l[c],
                     d |-> 2 * scale.d]]

BlendInputs ==
    [ldr : [Pixels -> Colours], hdr : [Pixels -> Colours], mask : [Pixels -> MaskVals]]

NoBlend == [ldr |-> <<>>, hdr |-> <<>>, mask |-> <<>>, scale |-> None, blended |-> <<>>]

BlendImgs ==
    /\ pc = "blend_entry"
    /\ LET scale == FitScale(bl.ldr, bl.hdr, bl.mask)
       IN  bl' = [bl EXCEPT !.scale = scale,
                            !.blended = [p \in DOMAIN bl.mask |->
                                BlendPixel(bl.ldr[p], bl.hdr[p], bl.mask[p], scale)]]
    /\ pc' = "blend_returned"
    /\ UNCHANGED <<args, env, imgs, idx, reads, calls, fs, out, failed, exc, img, ih, hr>>

(***************************************************************************)
(* The highlight mask (intrinsic_hdr lines 194-212, hdr_reconstruction     *)
(* lines 126-127) of an image of one colour, on which cv2.resize changes   *)
(* no value.  Pixel values and the mask are counted in hundredths,         *)
(* proc_scale in halves.                                                   *)
(***************************************************************************)
Clamp(x, lo, hi) == Max(lo, Min(x, hi))

PixVals == {0, 40, 80, 92, 100, 140}

ProcScales == {1, 2, 4}

\* Line 195: np.clip(ldr_c, 0, 1).
ClipImage(p) == [c \in 1..3 |-> Clamp(p[c], 0, 100)]

\* Line 212: ldr_lin * proc_scale.
ScaleImage(p, ps) == [c \in 1..3 |-> (p[c] * ps) \div 2]

Max3(p) == Max(p[1], Max(p[2], p[3]))

\* Line 127: torch.max(torch.clamp(ldr_t-0.8,0,1)/0.2, dim=1); x/0.2 is 5x.
HighlightMask(ldr_t) == Max3([c \in 1..3 |-> Clamp(ldr_t[c] - 80, 0, 100) * 5])

\* Lines 141, 147, 157: torch.clamp(ldr_t*proc_scale, 0, 1), the colour
\* channels of the three network inputs.
NetworkRgb(ldr_t, ps) == [c \in 1..3 |-> Clamp((ldr_t[c] * ps) \div 2, 0, 100)]

MaskInputs == [ldr_in : [1..3 -> PixVals], proc_scale : ProcScales]

NoMask == [ldr_in |-> <<>>, proc_scale |-> 0, ldr_c |-> <<>>, ldr_t |-> <<>>,
           rgb_in |-> <<>>, mask |-> None]

HdrReconstruction ==
    /\ pc = "mask_entry"
    /\ LET ldr_c == ClipImage(hr.ldr_in)
           ldr_t == ScaleImage(ldr_c, hr.proc_scale)
       IN  hr' = [hr EXCEPT !.ldr_c = ldr_c,
                            !.ldr_t = ldr_t,
                            !.rgb_in = NetworkRgb(ldr_t, hr.proc_scale),
                            !.mask = Some(HighlightMask(ldr_t))]
    /\ pc' = "mask_returned"
    /\ UNCHANGED <<args, env, imgs, idx, reads, calls, fs, out, failed, exc, img, ih, bl>>

(***************************************************************************)
(* intrinsic_hdr (lines 174-255) on the shapes of its arrays.              *)
(***************************************************************************)
MaxResSet == {1, 7, 32, 33, 96, 4096}

(***************************************************************************)
(* Python floats (IEEE-754 binary64, round to nearest, ties to even).  A   *)
(* natural number of any size is the sequence of its binary digits, most   *)
(* significant first, without leading zeros.  A positive float is          *)
(* [m |-> 53 digits starting with 1, e |-> exponent], of value m * 2^e.    *)
(***************************************************************************)
RECURSIVE Bits(_)
Bits(k) == IF k = 0 THEN <<>> ELSE Bits(k \div 2) \o <<k % 2>>

RECURSIVE ToNat(_)
ToNat(b) ==
    IF b = <<>> THEN 0 ELSE 2 * ToNat(SubSeq(b, 1, Len(b) - 1)) + b[Len(b)]

Zeros(n) == [i \in 1..n |-> 0]

StripZeros(b) ==
    LET S == {i \in 1..Len(b) : b[i] = 1}
    IN  IF S = {} THEN <<>>
        ELSE SubSeq(b, CHOOSE i \in S : \A j \in S : i <= j, Len(b))

\* b + 1.
IncBits(b) ==
    LET S == {i \in 1..Len(b) : b[i] = 0}
    IN  IF S = {} THEN <<1>> \o Zeros(Len(b))
        ELSE LET j == CHOOSE i \in S : \A k \in S : k <= i
             IN  [i \in 1..Len(b) |-> IF i < j THEN b[i] ELSE IF i = j THEN 1 ELSE 0]

\* The digits of b in base 8192 (13 binary digits each), and back.
ToLimbs(b) ==
    LET n   == (Len(b) + 12) \div 13
        pad == Zeros(13 * n - Len(b)) \o b
    IN  [j \in 1..n |-> ToNat(SubSeq(pad, 13 * (j - 1) + 1, 13 * j))]

FromLimbs(ls) ==
    [i \in 1..(13 * Len(ls)) |->
        (ls[((i - 1) \div 13) + 1] \div (2 ^ (12 - ((i - 1) % 13)))) % 2]

\* ls * k + carry in base 8192, for k < 8192.
RECURSIVE MulLimbs(_, _, _)
MulLimbs(ls, k, carry) ==
    IF ls = <<>> THEN (IF carry = 0 THEN <<>> ELSE <<carry>>)
    ELSE LET t == ls[Len(ls)] * k + carry
         IN  MulLimbs(SubSeq(ls, 1, Len(ls) - 1), k, t \div 8192) \o <<t % 8192>>

\* b * k for a small k.
MulBits(b, k) == StripZeros(FromLimbs(MulLimbs(ToLimbs(b), k, 0)))

\* The float nearest to b * 2^e (+ a positive rest below the last digit of
\* b when sticky), for b without leading zeros.
FloatRound(b, e, sticky) ==
    IF Len(b) <= 53
    THEN [m |-> b \o Zeros(53 - Len(b)), e |-> e - (53 - Len(b))]
    ELSE LET d    == Len(b) - 53
             keep == SubSeq(b, 1, 53)
             rest == sticky \/ \E i \in 55..Len(b) : b[i] = 1
             up   == b[54] = 1 /\ (rest \/ keep[53] = 1)
             m0   == IF up THEN IncBits(keep) ELSE keep
         IN  IF Len(m0) = 54 THEN [m |-> SubSeq(m0, 1, 53), e |-> e + d + 1]
             ELSE [m |-> m0, e |-> e + d]

\* float(k) for an integer k >= 1.
FloatOfInt(k) == FloatRound(Bits(k), 0, FALSE)

\* The first n base-8192 digits of r/m after the point, for 0 <= r < m.
RECURSIVE FracLimbs(_, _, _)
FracLimbs(r, m, n) ==
    IF n = 0 THEN <<>>
    ELSE <<(r * 8192) \div m>> \o FracLimbs((r * 8192) % m, m, n - 1)

\* What is left of r/m after its first n digits, times m * 8192^n.
RECURSIVE FracRest(_, _, _)
FracRest(r, m, n) == IF n = 0 THEN r ELSE FracRest((r * 8192) % m, m, n - 1)

\* a / m for integers 1 <= a, m < 2^17 (true division): the quotient's
\* digits to well past the 54th significant one, rounded.
FloatDiv(a, m) ==
    LET n == 7
    IN  FloatRound(StripZeros(Bits(a \div m) \o FromLimbs(FracLimbs(a % m, m, n))),
                   0 - 13 * n, FracRest(a % m, m, n) # 0)

\* k * x for an integer k >= 1 and a float x.
FloatMulInt(k, x) == FloatRound(MulBits(x.m, k), x.e, FALSE)

\* math.ceil(x / 32) for a float 0 < x < 2^35; x / 32 is exact.
FloatCeilDiv32(x) ==
    LET k == 5 - x.e
    IN  IF k >= 53 THEN 1
        ELSE ToNat(SubSeq(x.m, 1, 53 - k))
             + (IF \E i \in (54 - k)..53 : x.m[i] = 1 THEN 1 ELSE 0)

\* intrinsic_decomposition.common.general.round_32 of the float x: the
\* next multiple of 32 at or above x.
round_32(x) == 32 * FloatCeilDiv32(x)

\* Lines 199-205: (h_proc, w_proc).  Without a resize the sides are the
\* integers h_in and w_in, given here as the floats of the same value.
ProcSize(h_in, w_in, max_res) ==
    IF Max(h_in, w_in) > max_res
    THEN LET s == FloatDiv(max_res, Max(h_in, w_in))
         IN  [h |-> FloatMulInt(h_in, s), w |-> FloatMulInt(w_in, s)]
    ELSE [h |-> FloatOfInt(h_in), w |-> FloatOfInt(w_in)]

\* The methods of torch.Tensor that inference.py calls on a tensor.
TensorMethods == {"permute", "unsqueeze", "squeeze", "float", "to", "cpu", "numpy"}

\* Lines 233-241: the statements that unpack tensors, in order, each with the
\* methods it calls.
PackStatements ==
    << [line |-> 233, methods |-> {"squeeze", "permute", "cpu", "numpy"}],
       [line |-> 236, methods |-> {"squeeze", "cpu", "numpy"}],
       [line |-> 239, methods |-> {"sqeeze", "cpu", "numpy"}],
       [line |-> 240, methods |-> {"sqeeze", "cpu", "numpy"}] >>

\* The statements that raise AttributeError when run.
BadStatements == {i \in 1..Len(PackStatements) :
                     ~(PackStatements[i].methods \subseteq TensorMethods)}

\* Lines 244-253.
ResultKeys == {"rgb_hdr", "alb_hdr", "sh_hdr", "mask", "alb_raw", "sh_raw",
               "alb_ldr", "sh_ldr"}

\* Whether a call of intrinsic_hdr raises (with networks that return
\* tensors of the documented shapes).
IntrinsicHdrRaises == BadStatements # {}

\* Image sides: every small one, and one past three times a max_res.
Dims == 1..MaxDim \cup {187}

IhdrInputs ==
    [h_in : Dims, w_in : Dims, max_res : MaxResSet,
     decomp_res : {None, Some(384)}, proc_scale : {2, 4}]

NoIhdr == [h_in |-> 0, w_in |-> 0, max_res |-> 0, decomp_res |-> None, proc_scale |-> 0,
           proc |-> None, new_h |-> 0, new_w |-> 0, mask_shape |-> <<>>,
           hdr_shape |-> <<>>, keys |-> {}]

\* Lines 194-209: clip, choose the processing size, resize.
IhdrResize ==
    /\ pc = "ihdr_entry"
    /\ LET proc == ProcSize(ih.h_in, ih.w_in, ih.max_res)
       IN  ih' = [ih EXCEPT !.proc = Some(proc),
                            !.new_h = round_32(proc.h),
                            !.new_w = round_32(proc.w)]
    /\ pc' = "ihdr_resized"
    /\ UNCHANGED <<args, env, imgs, idx, reads, calls, fs, out, failed, exc, img, hr, bl>>

\* Lines 211-226: decompose, reconstruct at (new_h, new_w), resize the HDR
\* image and the mask back to (h_in, w_in), blend.
IhdrReconstruct ==
    /\ pc = "ihdr_resized"
    /\ ih' = [ih EXCEPT !.mask_shape = <<ih.h_in, ih.w_in>>,
                        !.hdr_shape = <<ih.h_in, ih.w_in, 3>>]
    /\ pc' = "ihdr_blended"
    /\ UNCHANGED <<args, env, imgs, idx, reads, calls, fs, out, failed, exc, img, hr, bl>>

\* Lines 228-255: unpack the intrinsic components and pack the results.
IhdrPack ==
    /\ pc = "ihdr_blended"
    /\ IF IntrinsicHdrRaises
       THEN /\ pc' = "ihdr_raised"
            /\ exc' = "AttributeError"
            /\ ih' = ih
       ELSE /\ pc' = "ihdr_returned"
            /\ exc' = exc
            /\ ih' = [ih EXCEPT !.keys = ResultKeys]
    /\ UNCHANGED <<args, env, imgs, idx, reads, calls, fs, out, failed, img, hr, bl>>

(***************************************************************************)
(* The script (lines 259-389).                                             *)
(***************************************************************************)
Files == 1..MaxFiles

\* Lines 264-279: the namespace parse_args returns.  test_imgs and
\* output_path are paths (token sequences).
ArgNames == {"test_imgs", "output_path", "start_id", "end_id", "res", "img_scale",
             "store_intrinsics", "use_exr", "testing", "subfolder_structure", "testset"}

Ids == (0 - 1)..MaxFiles

Args ==
    [test_imgs : {<<"in">>}, output_path : {<<"out">>},
     start_id : Ids, end_id : {None} \cup {Some(i) : i \in Ids},
     res : {None, Some(512)}, img_scale : {1, 2},
     store_intrinsics : BOOLEAN, use_exr : BOOLEAN, subfolder_structure : BOOLEAN]

\* What the script finds on disk: each input file is absent, directly in
\* test_imgs ("top") or in a subfolder of it ("sub"); some files cannot be
\* decoded; the weights and the checkpoints exist or not.
Envs ==
    [files : [Files -> {"absent", "top", "sub"}], unreadable : SUBSET Files,
     weights : BOOLEAN, ckpts : BOOLEAN]

WellFormedEnv(e) == \A f \in e.unreadable : e.files[f] # "absent"

\* The path of input file f: names "a.exr", "b.exr", ... under test_imgs,
\* the files of a subfolder under test_imgs/sub.
Stem(f) == <<"a", "b", "c", "d", "e", "f", "g", "h">>[f]

ImgName(a, e, f) ==
    LET dir == IF e.files[f] = "sub" THEN PathJoin(a.test_imgs, <<"sub">>)
               ELSE a.test_imgs
    IN  PathJoin(dir, <<Stem(f), ".exr">>)

\* Lines 305-309: glob.glob(test_imgs/**/*.exr) or glob.glob(test_imgs/*.exr),
\* sorted and sliced.
SelectedImages(a, e) ==
    LET depth == IF a.subfolder_structure THEN "sub" ELSE "top"
    IN  PySlice(Sorted({f \in Files : e.files[f] = depth}), a.start_id, a.end_id)

\* Lines 285-290 and load_models (model_util.py lines 12-38): torch.load
\* raises when a weight file is missing.
LoadModels ==
    /\ pc = "start"
    /\ IF env.weights
       THEN /\ pc' = "load_rec"
            /\ out' = Append(out, "Decomposition models loaded ...")
            /\ exc' = exc
       ELSE /\ pc' = "raised"
            /\ out' = out
            /\ exc' = "FileNotFoundError"
    /\ UNCHANGED <<args, env, imgs, idx, reads, calls, fs, failed, img, ih, hr, bl>>

\* Lines 296-298 and load_reconstruction_models (lines 56-108):
\* load_from_checkpoint raises when a checkpoint is missing; line 100 reads
\* args.ref_mode.
LoadReconstructionModels ==
    /\ pc = "load_rec"
    /\ IF ~env.ckpts
       THEN /\ pc' = "raised"
            /\ out' = out
            /\ exc' = "FileNotFoundError"
       ELSE IF "ref_mode" \notin ArgNames
       THEN /\ pc' = "raised"
            /\ out' = out \o <<"Shading model loaded ...", "Albedo model loaded ...">>
            /\ exc' = "AttributeError"
       ELSE /\ pc' = "data"
            /\ out' = out \o <<"Shading model loaded ...", "Albedo model loaded ...",
                               "Refinement model loaded ...",
                               "Reconstruction models loaded ...">>
            /\ exc' = exc
    /\ UNCHANGED <<args, env, imgs, idx, reads, calls, fs, failed, img, ih, hr, bl>>

\* Lines 305-325: the file list, the output folder, the output file type.
SelectImages ==
    /\ pc = "data"
    /\ imgs' = SelectedImages(args, env)
    /\ pc' = "loop"
    /\ UNCHANGED <<args, env, idx, reads, calls, fs, out, failed, exc, img, ih, hr, bl>>

\* Lines 331-337 where an image that cannot be decoded is skipped.
ReadImageSkipping ==
    /\ pc = "loop"
    /\ idx < Len(imgs)
    /\ LET f == imgs[idx + 1]
       IN  /\ idx' = idx + 1
           /\ img' = ImgName(args, env, f)
           /\ reads' = Append(reads, f)
           /\ out' = Append(out, "Processing img")
           /\ IF f \in env.unreadable
              THEN /\ pc' = "loop"
                   /\ exc' = "cv2.error"
                   /\ failed' = IF failed = 0 THEN idx + 1 ELSE failed
              ELSE /\ pc' = "call"
                   /\ exc' = exc
                   /\ failed' = failed
    /\ UNCHANGED <<args, env, imgs, calls, fs, ih, hr, bl>>

\* Lines 331-337: the next img_name of the list; cv2.imread returns None for
\* a file it cannot decode, and cv2.cvtColor raises on None.
ReadImage ==
    /\ pc = "loop"
    /\ idx < Len(imgs)
    /\ LET f == imgs[idx + 1]
       IN  /\ idx' = idx + 1
           /\ img' = ImgName(args, env, f)
           /\ reads' = Append(reads, f)
           /\ out' = Append(out, "Processing img")
           /\ IF f \in env.unreadable
              THEN /\ pc' = "raised"
                   /\ exc' = "cv2.error"
                   /\ failed' = idx + 1
              ELSE /\ pc' = "call"
                   /\ exc' = exc
                   /\ failed' = failed
    /\ UNCHANGED <<args, env, imgs, calls, fs, ih, hr, bl>>

\* The defaults of intrinsic_hdr's parameters (lines 177-179).
IntrinsicHdrDefaults == [max_res |-> Some(4096), decomp_res |-> None, proc_scale |-> 1]

\* Line 340: intrinsic_hdr(decomp_models, reconstruction_models, ldr_c); the
\* parameters the call does not give take their defaults.
CallArguments(a) == IntrinsicHdrDefaults

\* Line 340: the call of intrinsic_hdr.
CallIntrinsicHdr ==
    /\ pc = "call"
    /\ calls' = Append(calls, CallArguments(args))
    /\ IF IntrinsicHdrRaises
       THEN /\ pc' = "raised"
            /\ exc' = "AttributeError"
            /\ failed' = idx
       ELSE /\ pc' = "store"
            /\ exc' = exc
            /\ failed' = failed
    /\ UNCHANGED <<args, env, imgs, idx, reads, fs, out, img, ih, hr, bl>>

\* Line 389, after the last iteration.
Finish ==
    /\ pc = "loop"
    /\ idx = Len(imgs)
    /\ out' = Append(out, "Finished!")
    /\ pc' = "finished"
    /\ UNCHANGED <<args, env, imgs, idx, reads, calls, fs, failed, exc, img, ih, hr, bl>>

\* Lines 321-325.
Ext(a) == IF a.use_exr THEN ".exr" ELSE ".hdr"

\* Lines 313-318: out_path and ref_out_path.
RefOutPath(a) == PathJoin(a.output_path, <<"predictions">>)

\* Lines 346-351: the path of the refined HDR image of img_name.
RefHdrPath(a, img_name) ==
    LET fpath == PathSplit(img_name).head
        fname == PathSplit(img_name).tail
        renamed == StrReplace(fname, <<".exr">>, <<Ext(a)>>)
    IN  IF a.subfolder_structure
        THEN PathJoin(StrReplace(fpath, a.test_imgs, RefOutPath(a) \o <<"/">>), renamed)
        ELSE PathJoin(RefOutPath(a) \o <<"/">>, renamed)

\* Line 367.
OHdrPath(a, img_name) ==
    StrReplace(RefHdrPath(a, img_name), <<".exr">>, <<"_direct", Ext(a)>>)

\* Lines 370-372, 378-379, 384-385: o_hdr_path.replace('_direct'+ext, suffix).
IntrinsicPath(a, img_name, suffix) ==
    StrReplace(OHdrPath(a, img_name), <<"_direct", Ext(a)>>, suffix)

\* The suffixes of the intrinsic files in the order they are written
\* (lines 373-375, 380-381, 386-387).
IntrinsicSuffixes ==
    << <<"_alb_hdr", ".exr">>, <<"_sh_hdr", ".exr">>, <<"_mask", ".png">>,
       <<"_alb_ldr", ".exr">>, <<"_sh_ldr", ".exr">>,
       <<"_alb_raw", ".exr">>, <<"_sh_raw", ".exr">> >>

\* The paths written for img_name, in order (lines 352-387).
WrittenPaths(a, img_name) ==
    <<RefHdrPath(a, img_name)>> \o
    (IF a.store_intrinsics
     THEN [i \in 1..Len(IntrinsicSuffixes) |->
              IntrinsicPath(a, img_name, IntrinsicSuffixes[i])]
     ELSE <<>>)

\* Lines 342-387: save the refined HDR image and, with --store_intrinsics,
\* the intrinsic components; then the next iteration.
StoreOutputs ==
    /\ pc = "store"
    /\ fs' = fs \o WrittenPaths(args, img)
    /\ pc' = "loop"
    /\ UNCHANGED <<args, env, imgs, idx, reads, calls, out, failed, exc, img, ih, hr, bl>>

(***************************************************************************)
(* Initial states and specifications.                                      *)
(***************************************************************************)
NoFunction == ih = NoIhdr /\ hr = NoMask /\ bl = NoBlend

NoRun ==
    /\ imgs = <<>> /\ idx = 0 /\ reads = <<>> /\ calls = <<>> /\ fs = <<>>
    /\ failed = 0 /\ exc = "none" /\ img = <<>>

DefaultArgs ==
    [test_imgs |-> <<"in">>, output_path |-> <<"out">>, start_id |-> 0, end_id |-> None,
     res |-> None, img_scale |-> 1, store_intrinsics |-> FALSE, use_exr |-> FALSE,
     subfolder_structure |-> FALSE]

NoEnv == [files |-> [f \in Files |-> "absent"], unreadable |-> {}, weights |-> TRUE,
          ckpts |-> TRUE]

\* The process starts: the arguments are parsed, nothing is loaded.
Init ==
    /\ pc = "start"
    /\ args \in Args
    /\ env \in {e \in Envs : WellFormedEnv(e)}
    /\ out = <<>>
    /\ NoRun
    /\ NoFunction

Next == LoadModels \/ LoadReconstructionModels

Spec == Init /\ [][Next]_vars

\* The script at line 305: the models are loaded.
LoopInit ==
    /\ pc = "data"
    /\ args \in Args
    /\ env \in {e \in Envs : WellFormedEnv(e) /\ e.weights /\ e.ckpts}
    /\ out = <<"Decomposition models loaded ...", "Shading model loaded ...",
               "Albedo model loaded ...", "Refinement model loaded ...",
               "Reconstruction models loaded ...">>
    /\ NoRun
    /\ NoFunction

LoopNext == SelectImages \/ ReadImage \/ CallIntrinsicHdr \/ Finish

LoopSpec == LoopInit /\ [][LoopNext]_vars

\* One iteration at line 342: intrinsic_hdr has returned for img.
StoreNames ==
    { <<"a", ".exr">>, <<"b", ".exr">>, <<"a", "_direct", ".exr">>,
      <<"a", ".hdr", ".exr">>, <<"a", ".exr", ".exr">> }

StoreArgs ==
    {a \in [test_imgs : {<<"in">>, <<"in", "/">>},
            output_path : {<<"out">>, <<"out", "/">>, <<"o", ".exr">>},
            start_id : {0}, end_id : {None}, res : {None}, img_scale : {1},
            store_intrinsics : BOOLEAN, use_exr : BOOLEAN,
            subfolder_structure : BOOLEAN] : TRUE}

StoreInit ==
    /\ pc = "store"
    /\ args \in StoreArgs
    /\ env = NoEnv
    /\ \E name \in StoreNames :
          img = PathJoin(IF args.subfolder_structure
                         THEN PathJoin(args.test_imgs, <<"sub">>)
                         ELSE args.test_imgs, name)
    /\ imgs = <<1>> /\ idx = 1 /\ reads = <<1>>
    /\ calls = <<CallArguments(args)>>
    /\ fs = <<>> /\ failed = 0 /\ exc = "none"
    /\ out = <<>>
    /\ NoFunction

StoreNext == StoreOutputs

StoreSpec == StoreInit /\ [][StoreNext]_vars

\* A call of intrinsic_hdr.
IhdrInit ==
    /\ pc = "ihdr_entry"
    /\ \E i \in IhdrInputs :
          ih = [NoIhdr EXCEPT !.h_in = i.h_in, !.w_in = i.w_in, !.max_res = i.max_res,
                              !.decomp_res = i.decomp_res, !.proc_scale = i.proc_scale]
    /\ hr = NoMask /\ bl = NoBlend
    /\ args = DefaultArgs /\ env = NoEnv /\ out = <<>>
    /\ NoRun

IhdrNext == IhdrResize \/ IhdrReconstruct \/ IhdrPack

IhdrSpec == IhdrInit /\ [][IhdrNext]_vars

\* The mask of an image of one colour.
MaskInit ==
    /\ pc = "mask_entry"
    /\ \E i \in MaskInputs :
          hr = [NoMask EXCEPT !.ldr_in = i.ldr_in, !.proc_scale = i.proc_scale]
    /\ ih = NoIhdr /\ bl = NoBlend
    /\ args = DefaultArgs /\ env = NoEnv /\ out = <<>>
    /\ NoRun

MaskNext == HdrReconstruction

MaskSpec == MaskInit /\ [][MaskNext]_vars

\* A call of blend_imgs.
BlendInit ==
    /\ pc = "blend_entry"
    /\ \E i \in BlendInputs :
          bl = [NoBlend EXCEPT !.ldr = i.ldr, !.hdr = i.hdr, !.mask = i.mask]
    /\ ih = NoIhdr /\ hr = NoMask
    /\ args = DefaultArgs /\ env = NoEnv /\ out = <<>>
    /\ NoRun

BlendNext == BlendImgs

BlendSpec == BlendInit /\ [][BlendNext]_vars

(***************************************************************************)
(* The claims.                                                             *)
(***************************************************************************)

\* C1: a call of intrinsic_hdr never raises, and when it has returned its
\* result is a dict with exactly the eight documented keys.
C1_IntrinsicHdrReturns ==
    /\ pc # "ihdr_raised"
    /\ pc = "ihdr_returned" => ih.keys = ResultKeys

\* The images the run selects, and whether each of them can be read.
SelectedReadable == Range(SelectedImages(args, env)) \cap env.unreadable = {}

\* How often path p was written.
WriteCount(p) == Cardinality({i \in 1..Len(fs) : fs[i] = p})

\* C2: with the weights and checkpoints in place and every selected file
\* readable, the run does not end in an exception, and once "Finished!" is
\* printed exactly one refined HDR file has been written for each selected
\* image.
C2_BatchRunFinishes ==
    (env.weights /\ env.ckpts /\ SelectedReadable) =>
        /\ pc # "raised"
        /\ pc = "finished" =>
              LET sel == SelectedImages(args, env)
              IN  \A i \in 1..Len(sel) :
                     WriteCount(RefHdrPath(args, ImgName(args, env, sel[i]))) = 1

\* C4, the states after a failure in iteration k: the exception is pending
\* (nothing caught it), the loop is still in iteration k, the images read
\* are exactly the first k of the list, no path of image k or of a later
\* image has been written, and "Finished!" has not been printed.
C4_AfterFailure ==
    failed # 0 =>
        /\ pc = "raised" /\ exc # "none"
        /\ idx = failed
        /\ reads = SubSeq(imgs, 1, failed)
        /\ \A i \in failed..Len(imgs) :
              Range(WrittenPaths(args, ImgName(args, env, imgs[i]))) \cap Range(fs) = {}
        /\ "Finished!" \notin Range(out)

C5_OptionsReachIntrinsicHdr ==
    \A i \in 1..Len(calls) :
        /\ calls[i].max_res = args.res
        /\ calls[i].proc_scale = args.img_scale

\* Equality and order of quotients with positive denominators.
QEq(x, y) == x.n * y.d = y.n * x.d

QLe(x, y) == x.n * y.d <= y.n * x.d

Whole(k) == [n |-> k, d |-> 1]

\* The float x is the integer k.
FloatIs(x, k) == x = FloatOfInt(k)

\* C6: for h_in, w_in >= 1 and max_res >= 1, once the size is chosen: if
\* max(h_in, w_in) <= max_res the size before rounding is exactly
\* (h_in, w_in); otherwise both sides are the input's times the one factor
\* max_res / max(h_in, w_in) and the longer side is exactly max_res; and
\* new_h, new_w are multiples of 32 that are at least 32.
C6_ProcessingSize ==
    pc \in {"ihdr_resized", "ihdr_blended", "ihdr_raised", "ihdr_returned"} =>
        LET m    == Max(ih.h_in, ih.w_in)
            proc == Val(ih.proc)
        IN  /\ m <= ih.max_res =>
                  /\ FloatIs(proc.h, ih.h_in)
                  /\ FloatIs(proc.w, ih.w_in)
            /\ m > ih.max_res =>
                  /\ proc.h = FloatMulInt(ih.h_in, FloatDiv(ih.max_res, m))
                  /\ proc.w = FloatMulInt(ih.w_in, FloatDiv(ih.max_res, m))
                  /\ ih.h_in >= ih.w_in => FloatIs(proc.h, ih.max_res)
                  /\ ih.w_in >= ih.h_in => FloatIs(proc.w, ih.max_res)
            /\ ih.new_h % 32 = 0 /\ ih.new_h >= 32
            /\ ih.new_w % 32 = 0 /\ ih.new_w >= 32

\* C7: in the result of blend_imgs, with the one scale of the call, a pixel
\* with mask 1 is the hdr pixel, a pixel with mask 0 is scale * ldr, and for
\* a mask in [0,1] every channel lies between hdr and scale * ldr.
C7_BlendByMask ==
    pc = "blend_returned" =>
        \A p \in DOMAIN bl.mask : \A c \in 1..3 :
            LET b  == bl.blended[p][c]
                h  == Whole(bl.hdr[p][c])
                sl == [n |-> bl.scale.n * bl.ldr[p][c], d |-> bl.scale.d]
            IN  /\ bl.scale = FitScale(bl.ldr, bl.hdr, bl.mask)
                /\ bl.mask[p] = 2 => QEq(b, h)
                /\ bl.mask[p] = 0 => QEq(b, sl)
                /\ bl.mask[p] \in 0..2 =>
                      \/ QLe(h, b) /\ QLe(b, sl)
                      \/ QLe(sl, b) /\ QLe(b, h)

\* A blend with a pixel of mask 1 and a pixel of mask 1/2 whose hdr colour
\* differs from its scaled ldr colour.
C7_Witness ==
    /\ pc = "blend_returned"
    /\ bl.scale.n # 0
    /\ bl.mask[1] = 2 /\ bl.mask[2] = 1
    /\ \E c \in 1..3 : bl.hdr[1][c] * bl.scale.d # bl.scale.n * bl.ldr[1][c]
    /\ \E c \in 1..3 : bl.hdr[2][c] * bl.scale.d # bl.scale.n * bl.ldr[2][c]

\* C8: with --store_intrinsics the eight paths written for an image are
\* pairwise distinct.
C8_DistinctPaths ==
    (pc = "loop" /\ args.store_intrinsics) =>
        /\ Len(fs) = 8
        /\ \A i, j \in 1..Len(fs) : i # j => fs[i] # fs[j]

\* C9: the mask is in [0,1]; it is 0 exactly when all three channels of the
\* (clipped) input are <= 0.8, and 1 when some channel is 1.0.
C9_MaskRange ==
    pc = "mask_returned" =>
        LET m == Val(hr.mask)
        IN  /\ 0 <= m /\ m <= 100
            /\ m = 0 <=> \A c \in 1..3 : hr.ldr_c[c] <= 80
            /\ (\E c \in 1..3 : hr.ldr_c[c] = 100) => m = 100

=============================================================================
